---------------------------- MODULE Spec2Model ----------------------------
(***************************************************************************)
(* Dodger (src/main.rs): the frame loop of the Bevy application.           *)
(*                                                                         *)
(* One frame is: BeginFrame (the engine's First/PreUpdate stages: the      *)
(* event buffers are rotated, the clock and the keyboard are sampled),     *)
(* then the Update stage, in which the state driver added by add_state     *)
(* loops: state_cleaner evaluates the run criteria, the system sets whose  *)
(* criteria hold run (each system once, in an order the registration does  *)
(* not fix), ApplyBuffers applies the queued commands, and the criteria    *)
(* are evaluated again until the driver answers No.                        *)
(*                                                                         *)
(* Units: time in ticks of 1/TicksPerSecond s, lengths in world units,     *)
(* scales in halves (scale 2 is the factor 1.0).                           *)
(***************************************************************************)
EXTENDS Integers, Sequences, FiniteSets

\* ------------------------------------------------------------- constants

SPRITE_SIZE == 16
SCREEN_Y_START == -220
SPAWN_Y == 220
PLAYER_SPEED == 100
TicksPerSecond == 10
\* Timer::new(Duration::from_secs(1), true), in ticks
TIMER_SECS == 1
TimerDuration == TIMER_SECS * TicksPerSecond
\* Scale factors are kept doubled: ScaleUnit is the factor 1.0
ScaleUnit == 2

\* --------------------------------------------------------------- bounds

\* Frames the model runs before the clock stops delivering frames
MaxFrames == 3

\* Frame deltas the clock may deliver, in ticks (0.3 s, 0.4 s, 4 s)
Deltas == {3, 4, 40}
\* Values rng.gen_range may return for an obstacle (x, speed, doubled scale)
SpawnXs == {0}
Speeds == {50, 110}
Scales == {9}
\* Keys the keyboard may report held in a frame
KeyChoices == {{}, {"Space"}, {"Left"}, {"Right"}, {"Left", "Right"}}

\* ----------------------------------------------------------------- state

VARIABLES
    current,          \* State<GameState>.stack.last()
    transition,       \* State<GameState>.transition
    scheduled,        \* State<GameState>.scheduled
    end_next_loop,    \* State<GameState>.end_next_loop
    prep_exit,        \* state_cleaner's Local<bool>
    pc,               \* "idle" | "criteria" | "systems" | "panicked"
    pending,          \* systems of this pass that have not run yet
    commands,         \* commands queued in this pass
    entities,         \* the world's entities
    resources,        \* names of the resources inserted so far
    score,            \* Scoreboard.score
    spawn_timer,      \* SpawnTimer.timer
    events_old,       \* Events<CollisionEvent>: the buffer of the previous frame
    events_new,       \* Events<CollisionEvent>: the buffer of this frame
    event_count,      \* Events<CollisionEvent>.event_count
    last_event_count, \* end_on_collision's EventReader position
    delta,            \* Time.delta() of this frame
    keys,             \* Input<KeyCode>: the keys held in this frame
    frame,            \* history: frames begun
    round,            \* history: entries into Playing (runs of setup)
    roundDeltas,      \* history: the deltas of this round's update passes
    roundReports,     \* history: events check_collisions sent in this round
    phaseNo,          \* history: phase changes so far
    pressEntries,     \* history: entries into Playing since Space was last up
    lastSet           \* history: the system and the events behind the last state.set

machine == <<current, transition, scheduled, end_next_loop, prep_exit>>
world == <<entities, resources, score, spawn_timer>>
events == <<events_old, events_new, event_count, last_event_count>>
inputs == <<delta, keys, frame>>
history == <<round, roundDeltas, roundReports, phaseNo, pressEntries, lastSet>>
vars == <<machine, pc, pending, commands, world, events, inputs, history>>

GameState == {"Title", "Playing", "GameOver"}
NoState == "-"

Tr(kind, from, to) == [kind |-> kind, from |-> from, to |-> to]
NoTransition == Tr("None", NoState, NoState)

\* ------------------------------------------------------------- entities

NoText == <<>>

\* born is history: the phase (its number) the entity was created in
\* (vx, vy) is Velocity.0 truncated to the plane; entities without Velocity carry 0
Entity(id, comps, x, y, scale, vx, vy, text) ==
    [id |-> id, comps |-> comps, x |-> x, y |-> y, scale |-> scale,
     vx |-> vx, vy |-> vy, text |-> text, born |-> phaseNo]

Section(lit, num) == [lit |-> lit, num |-> num]

With(comp) == {e \in entities : comp \in e.comps}

Players == With("Player")
Obstacles == With("Collider")
Texts == With("Text")

SpawnsOf(cmds) ==
    {cmds[i].entity : i \in {j \in DOMAIN cmds : cmds[j].op = "spawn"}}

\* Commands::spawn reserves the entity at once: an id nothing alive or queued holds
FreshId(cmds) ==
    LET used == {e.id : e \in entities} \cup {e.id : e \in SpawnsOf(cmds)}
    IN  CHOOSE n \in 0..Cardinality(used) : n \notin used

Spawn(cmds, comps, x, y, scale, vx, vy, text) ==
    Append(cmds, [op |-> "spawn",
                  entity |-> Entity(FreshId(cmds), comps, x, y, scale, vx, vy, text)])

InsertResource(cmds, name) == Append(cmds, [op |-> "insert_resource", name |-> name])

Despawn(cmds, id) == Append(cmds, [op |-> "despawn", id |-> id])

FreshTimer == [elapsed |-> 0, finished |-> FALSE, times_finished |-> 0]

RECURSIVE SumSeq(_)
SumSeq(q) == IF q = <<>> THEN 0 ELSE Head(q) + SumSeq(Tail(q))

\* ------------------------------------------------------- State<GameState>

\* State::set: the error it returns, or "Ok"
SetResult(cur, sched, target) ==
    IF cur = target THEN "AlreadyInState"
    ELSE IF sched # NoState THEN "StateAlreadyQueued"
    ELSE "Ok"

\* The system sets of main(), by run criterion
OnEnter(s) ==
    CASE s = "Title" -> {"setup_title"}
      [] s = "Playing" -> {"setup"}
      [] s = "GameOver" -> {"show_summary"}

OnUpdate_ScoreInGameOver(s) ==
    CASE s = "Title" -> {"start_game"}
      [] s = "Playing" -> {"apply_velocity", "enemy_spawner", "player_movement",
                           "check_collisions", "end_on_collision", "update_score"}
      [] s = "GameOver" -> {"start_game", "update_score"}

OnUpdate(s) ==
    CASE s = "Title" -> {"start_game"}
      [] s = "Playing" -> {"apply_velocity", "enemy_spawner", "player_movement",
                           "check_collisions", "end_on_collision", "update_score"}
      [] s = "GameOver" -> {"start_game"}

OnExit(s) ==
    CASE s = "Title" -> {"cleanup"}
      [] s = "Playing" -> {"cleanup"}
      [] s = "GameOver" -> {"cleanup"}

\* The systems whose run criteria (State::on_enter, on_update, on_exit, each
\* through should_run_adapter) answer yes for the machine (cur, tr, enl)
RunSets(cur, tr, enl) ==
    IF enl THEN {}
    ELSE UNION {
        (IF \/ tr.kind = "Entering" /\ tr.to = s
            \/ tr.kind = "Startup" /\ cur = s
         THEN OnEnter(s) ELSE {})
        \cup (IF cur = s /\ tr.kind = "None" THEN OnUpdate(s) ELSE {})
        \cup (IF tr.kind = "ExitingFull" /\ tr.from = s THEN OnExit(s) ELSE {})
        : s \in GameState }

\* ------------------------------------------------------------------ Init

Init ==
    /\ current = "Title"
    /\ transition = Tr("PreStartup", NoState, NoState)
    /\ scheduled = NoState
    /\ end_next_loop = FALSE
    /\ prep_exit = FALSE
    /\ pc = "idle"
    /\ pending = {}
    /\ commands = <<>>
    /\ entities = {}
    /\ resources = {"Scoreboard"}
    /\ score = 0
    /\ spawn_timer = FreshTimer
    /\ events_old = <<>>
    /\ events_new = <<>>
    /\ event_count = 0
    /\ last_event_count = 0
    /\ delta = 0
    /\ keys = {}
    /\ frame = 0
    /\ round = 0
    /\ roundDeltas = <<>>
    /\ roundReports = 0
    /\ phaseNo = 0
    /\ pressEntries = 0
    /\ lastSet = [by |-> "-", seen |-> <<>>]

\* ------------------------------------------------------------ the frame

\* First and PreUpdate: Events::update_system rotates the buffers, the clock
\* and the keyboard deliver this frame's delta and held keys
BeginFrame ==
    /\ pc = "idle"
    /\ frame < MaxFrames
    /\ frame' = frame + 1
    /\ delta' \in Deltas
    /\ keys' \in KeyChoices
    /\ events_old' = events_new
    /\ events_new' = <<>>
    /\ pc' = "criteria"
    /\ pressEntries' = IF "Space" \in keys' THEN pressEntries ELSE 0
    /\ UNCHANGED <<machine, pending, commands, world, event_count,
                   last_event_count, round, roundDeltas, roundReports, phaseNo,
                   lastSet>>

\* The driver's run criterion (state_cleaner), then the sets' criteria
state_cleaner ==
    /\ pc = "criteria"
    /\ IF prep_exit /\ scheduled = NoState
       THEN \* nothing was scheduled in the update pass: end the loop next time
            /\ prep_exit' = FALSE
            /\ end_next_loop' = TRUE
            /\ UNCHANGED <<current, transition, scheduled>>
            /\ pc' = "criteria"
            /\ pending' = {}
       ELSE IF ~prep_exit /\ end_next_loop
       THEN \* ShouldRun::No: the Update stage of this frame is over
            /\ end_next_loop' = FALSE
            /\ UNCHANGED <<current, transition, scheduled, prep_exit>>
            /\ pc' = "idle"
            /\ pending' = {}
       ELSE LET tr == IF scheduled # NoState
                      THEN Tr("ExitingFull", current, scheduled)
                      ELSE IF transition.kind = "ExitingFull"
                      THEN Tr("Entering", transition.from, transition.to)
                      ELSE IF transition.kind = "PreStartup"
                      THEN Tr("Startup", NoState, NoState)
                      ELSE NoTransition
                cur == IF scheduled = NoState /\ transition.kind = "ExitingFull"
                       THEN transition.to ELSE current
                run == RunSets(cur, tr, end_next_loop)
            IN  /\ scheduled' = NoState
                /\ transition' = tr
                /\ current' = cur
                /\ prep_exit' = (tr.kind = "None")
                /\ UNCHANGED end_next_loop
                /\ pending' = run
                /\ pc' = IF run = {} THEN "criteria" ELSE "systems"
    /\ UNCHANGED <<commands, world, events, inputs, round, roundReports, lastSet>>
    /\ roundDeltas' = IF pc' = "systems" /\ current' = "Playing"
                         /\ transition'.kind = "None"
                      THEN Append(roundDeltas, delta) ELSE roundDeltas
    /\ phaseNo' = IF current' # current THEN phaseNo + 1 ELSE phaseNo
    /\ pressEntries' = IF current' # current /\ current' = "Playing"
                       THEN pressEntries + 1 ELSE pressEntries

\* Commands applied in the order they were queued
RECURSIVE ApplyEntities(_, _)
ApplyEntities(cmds, ents) ==
    IF cmds = <<>> THEN ents
    ELSE LET c == Head(cmds)
             next == CASE c.op = "spawn" -> ents \cup {c.entity}
                       [] c.op = "despawn" -> {e \in ents : e.id # c.id}
                       [] OTHER -> ents
         IN  ApplyEntities(Tail(cmds), next)

InsertedResources(cmds) ==
    {cmds[i].name : i \in {j \in DOMAIN cmds : cmds[j].op = "insert_resource"}}

\* The end of a pass: the buffers of the systems that ran are applied
ApplyBuffers ==
    /\ pc = "systems"
    /\ pending = {}
    /\ entities' = ApplyEntities(commands, entities)
    /\ resources' = resources \cup InsertedResources(commands)
    /\ spawn_timer' = IF "SpawnTimer" \in InsertedResources(commands)
                      THEN FreshTimer ELSE spawn_timer
    /\ commands' = <<>>
    /\ pc' = "criteria"
    /\ UNCHANGED <<machine, pending, score, events, inputs, history>>

\* A system of this pass is started
Runs(sys) ==
    /\ pc = "systems"
    /\ sys \in pending
    /\ pending' = pending \ {sys}

\* A system panicked: the application is gone
Panic == pc' = "panicked"

\* ------------------------------------------------------------ the systems

\* A system whose Res<T> parameter names a resource that does not exist panics
Has(res) == res \subseteq resources

RECURSIVE DespawnAll(_, _)
DespawnAll(cmds, ents) ==
    IF ents = {} THEN cmds
    ELSE LET e == CHOOSE x \in ents : \A y \in ents : x.id <= y.id
         IN  DespawnAll(Despawn(cmds, e.id), ents \ {e})

TitleText(lit) == <<Section(lit, <<>>)>>

setup_title ==
    /\ Runs("setup_title")
    /\ LET c1 == Spawn(commands, {"Transform", "Camera"}, 0, 0, ScaleUnit, 0, 0, NoText)
           c2 == Spawn(c1, {"Transform", "Text"}, 0, 0, ScaleUnit, 0, 0, TitleText("Dodger"))
           c3 == Spawn(c2, {"Transform", "Text"}, 0, 0, ScaleUnit, 0, 0,
                       TitleText("Press Space"))
       IN  commands' = InsertResource(c3, "TextFont")
    /\ pc' = pc
    /\ UNCHANGED <<machine, world, events, inputs, history>>

\* The player's starting translation
PlayerStart == [x |-> 0, y |-> SCREEN_Y_START]

InitialScore_Stale == score

\* The score setup stores
InitialScore == 0

\* The commands setup queues, after the commands cmds
SetupCommands(cmds) ==
    LET c1 == Spawn(cmds, {"Transform", "Camera"}, 0, 0, ScaleUnit, 0, 0, NoText)
        c2 == Spawn(c1, {"Transform", "Camera"}, 0, 0, ScaleUnit, 0, 0, NoText)
        c3 == Spawn(c2, {"Transform", "Sprite", "Player"}, PlayerStart.x, PlayerStart.y,
                    ScaleUnit, 0, 0, NoText)
        c4 == InsertResource(c3, "SpriteSheet")
        c5 == InsertResource(c4, "SpawnTimer")
    IN  Spawn(c5, {"Transform", "Text"}, 0, 0, ScaleUnit, 0, 0,
              <<Section("Score: ", <<>>), Section("", <<>>)>>)

setup ==
    /\ Runs("setup")
    /\ IF Has({"Scoreboard", "TextFont"})
       THEN /\ score' = InitialScore
            /\ commands' = SetupCommands(commands)
            /\ pc' = pc
       ELSE /\ Panic
            /\ UNCHANGED <<score, commands>>
    /\ round' = round + 1
    /\ roundDeltas' = <<>>
    /\ roundReports' = 0
    /\ UNCHANGED <<machine, entities, resources, spawn_timer, events, inputs, phaseNo,
                   pressEntries, lastSet>>

CleanupCommands_KeepPlayer(cmds, ents) ==
    DespawnAll(cmds, {e \in ents : "Player" \notin e.comps})

CleanupCommands_KeepText(cmds, ents) ==
    DespawnAll(cmds, {e \in ents : "Text" \notin e.comps})

CleanupCommands_KeepCameras(cmds, ents) ==
    DespawnAll(cmds, {e \in ents : "Camera" \notin e.comps})

\* The commands cleanup queues for the entities ents
CleanupCommands(cmds, ents) == DespawnAll(cmds, ents)

cleanup ==
    /\ Runs("cleanup")
    /\ commands' = CleanupCommands(commands, entities)
    /\ pc' = pc
    /\ UNCHANGED <<machine, world, events, inputs, history>>

\* keyboard_input.pressed(KeyCode::Space)
StartPressed(ks) == "Space" \in ks

StartTarget_GameOver == "GameOver"

\* The state start_game asks for
StartTarget == "Playing"

start_game ==
    /\ Runs("start_game")
    /\ IF StartPressed(keys)
       THEN IF SetResult(current, scheduled, StartTarget) = "Ok"
            THEN /\ scheduled' = StartTarget
                 /\ lastSet' = [by |-> "start_game", seen |-> <<>>]
                 /\ pc' = pc
            ELSE /\ Panic
                 /\ UNCHANGED <<scheduled, lastSet>>
       ELSE /\ pc' = pc
            /\ UNCHANGED <<scheduled, lastSet>>
    /\ UNCHANGED <<current, transition, end_next_loop, prep_exit, commands, world,
                   events, inputs, round, roundDeltas, roundReports, phaseNo,
                   pressEntries>>

\* `score as i16` of a score in ticks: truncated to whole seconds, saturating
I16_MAX == 32767
AsI16(ticks) ==
    LET secs == ticks \div TicksPerSecond
    IN  IF secs > I16_MAX THEN I16_MAX ELSE secs

show_summary ==
    /\ Runs("show_summary")
    /\ IF Has({"Scoreboard", "TextFont"})
       THEN /\ LET c1 == Spawn(commands, {"Transform", "Camera"}, 0, 0, ScaleUnit, 0, 0,
                               NoText)
               IN  commands' = Spawn(c1, {"Transform", "Text"}, 0, 0, ScaleUnit, 0, 0,
                                     <<Section("Score: ", <<>>),
                                       Section("", <<AsI16(score)>>)>>)
            /\ pc' = pc
       ELSE /\ Panic
            /\ UNCHANGED commands
    /\ UNCHANGED <<machine, world, events, inputs, history>>

TimerTick_Reset(t, d) ==
    LET e == t.elapsed + d
    IN  IF e >= TimerDuration
        THEN [elapsed |-> 0, finished |-> TRUE, times_finished |-> e \div TimerDuration]
        ELSE [elapsed |-> e, finished |-> FALSE, times_finished |-> 0]

\* Timer::tick of the repeating timer t by d ticks
TimerTick(t, d) ==
    LET e == t.elapsed + d
    IN  IF e >= TimerDuration
        THEN [elapsed |-> e - TimerDuration * (e \div TimerDuration),
              finished |-> TRUE,
              times_finished |-> e \div TimerDuration]
        ELSE [elapsed |-> e, finished |-> FALSE, times_finished |-> 0]

SpawnCount_Times(t) == t.times_finished

\* Obstacles enemy_spawner creates in a frame whose tick left the timer t
SpawnCount(t) == IF t.finished THEN 1 ELSE 0

\* velocity.0 * delta_time, and the like: units per second over d ticks
Travel(speed, d) == (speed * d) \div TicksPerSecond

Moved_Up(e, d) ==
    [e EXCEPT !.x = e.x + Travel(e.vx, d), !.y = e.y - Travel(e.vy, d)]

\* transform.translation += velocity.0 * delta_time
Moved(e, d) ==
    [e EXCEPT !.x = e.x + Travel(e.vx, d), !.y = e.y + Travel(e.vy, d)]

apply_velocity ==
    /\ Runs("apply_velocity")
    /\ entities' = {IF "Velocity" \in e.comps THEN Moved(e, delta) ELSE e : e \in entities}
    /\ pc' = pc
    /\ UNCHANGED <<machine, commands, resources, score, spawn_timer, events, inputs,
                   history>>

enemy_spawner ==
    /\ Runs("enemy_spawner")
    /\ IF Has({"SpawnTimer", "SpriteSheet"})
       THEN /\ spawn_timer' = TimerTick(spawn_timer, delta)
            /\ IF SpawnCount(spawn_timer') = 1
               THEN \E x \in SpawnXs, velocity \in Speeds, scale \in Scales :
                        commands' = Spawn(commands,
                                          {"Transform", "Sprite", "Velocity", "Collider"},
                                          x, SPAWN_Y, scale, 0, -velocity, NoText)
               ELSE UNCHANGED commands
            /\ pc' = pc
       ELSE /\ Panic
            /\ UNCHANGED <<spawn_timer, commands>>
    /\ UNCHANGED <<machine, entities, resources, score, events, inputs, history>>

Direction_Exclusive(ks) ==
    IF "Left" \in ks THEN -1 ELSE IF "Right" \in ks THEN 1 ELSE 0

\* The direction player_movement derives from the held keys
Direction(ks) ==
    (IF "Left" \in ks THEN -1 ELSE 0) + (IF "Right" \in ks THEN 1 ELSE 0)

player_movement ==
    /\ Runs("player_movement")
    /\ entities' = {IF "Player" \in e.comps
                    THEN [e EXCEPT !.x = e.x + Direction(keys) * Travel(PLAYER_SPEED, delta)]
                    ELSE e : e \in entities}
    /\ pc' = pc
    /\ UNCHANGED <<machine, commands, resources, score, spawn_timer, events, inputs,
                   history>>

ScoreAfter_Twice(s, d) == s + 2 * d

\* scoreboard.score += time.delta_seconds()
ScoreAfter(s, d) == s + d

update_score ==
    /\ Runs("update_score")
    /\ score' = ScoreAfter(score, delta)
    /\ IF Cardinality(Texts) = 1
       THEN /\ entities' = {IF "Text" \in e.comps
                            THEN [e EXCEPT !.text[2].num = <<AsI16(score')>>]
                            ELSE e : e \in entities}
            /\ pc' = pc
       ELSE \* query.single_mut() panics
            /\ Panic
            /\ UNCHANGED entities
    /\ UNCHANGED <<machine, commands, resources, spawn_timer, events, inputs, history>>

Collide_Touching(a, b) ==
    /\ a.x - ((SPRITE_SIZE * a.scale) \div (2 * ScaleUnit))
           <= b.x + ((SPRITE_SIZE * b.scale) \div (2 * ScaleUnit))
    /\ a.x + ((SPRITE_SIZE * a.scale) \div (2 * ScaleUnit))
           >= b.x - ((SPRITE_SIZE * b.scale) \div (2 * ScaleUnit))
    /\ a.y - ((SPRITE_SIZE * a.scale) \div (2 * ScaleUnit))
           <= b.y + ((SPRITE_SIZE * b.scale) \div (2 * ScaleUnit))
    /\ a.y + ((SPRITE_SIZE * a.scale) \div (2 * ScaleUnit))
           >= b.y - ((SPRITE_SIZE * b.scale) \div (2 * ScaleUnit))

\* Half of transform.scale.truncate() * SPRITE_SIZE, per axis
HalfSize(e) == (SPRITE_SIZE * e.scale) \div (2 * ScaleUnit)

\* bevy::sprite::collide_aabb::collide(..).is_some()
Collide(a, b) ==
    /\ a.x - HalfSize(a) < b.x + HalfSize(b)
    /\ a.x + HalfSize(a) > b.x - HalfSize(b)
    /\ a.y - HalfSize(a) < b.y + HalfSize(b)
    /\ a.y + HalfSize(a) > b.y - HalfSize(b)

Collisions_OnScreen ==
    {pr \in Players \X Obstacles : pr[2].y >= SCREEN_Y_START /\ Collide(pr[1], pr[2])}

\* The (player, projectile) pairs check_collisions sends an event for
Collisions == {pr \in Players \X Obstacles : Collide(pr[1], pr[2])}

RECURSIVE SendAll(_, _, _)
SendAll(evs, n, pairs) ==
    IF pairs = {} THEN evs
    ELSE LET pr == CHOOSE x \in pairs : \A y \in pairs : x[2].id <= y[2].id
         IN  SendAll(Append(evs, [id |-> n, player |-> pr[1].id,
                                  projectile |-> pr[2].id,
                                  round |-> round, frame |-> frame]),
                     n + 1, pairs \ {pr})

check_collisions ==
    /\ Runs("check_collisions")
    /\ events_new' = SendAll(events_new, event_count, Collisions)
    /\ event_count' = event_count + Cardinality(Collisions)
    /\ roundReports' = roundReports + Cardinality(Collisions)
    /\ pc' = pc
    /\ UNCHANGED <<machine, commands, world, events_old, last_event_count, inputs,
                   round, roundDeltas, phaseNo, pressEntries, lastSet>>

\* The events an EventReader at position last has not seen
Unread(last) == SelectSeq(events_old \o events_new, LAMBDA ev : ev.id >= last)

\* The guard of end_on_collision: the event is skipped unless this holds
StillPlaying(cur) == cur = "Playing"

\* The loop of end_on_collision over the events evs, from scheduled = sched:
\* what is scheduled afterwards, and whether an unwrap panicked
RECURSIVE EndLoop(_, _, _)
EndLoop(evs, cur, sched) ==
    IF evs = <<>> THEN [scheduled |-> sched, panicked |-> FALSE]
    ELSE IF ~StillPlaying(cur) THEN [scheduled |-> sched, panicked |-> FALSE]
    ELSE IF SetResult(cur, sched, "GameOver") # "Ok"
    THEN [scheduled |-> sched, panicked |-> TRUE]
    ELSE EndLoop(Tail(evs), cur, "GameOver")

end_on_collision ==
    /\ Runs("end_on_collision")
    /\ LET seen == Unread(last_event_count)
           out == EndLoop(seen, current, scheduled)
       IN  /\ scheduled' = out.scheduled
           /\ pc' = IF out.panicked THEN "panicked" ELSE pc
           /\ lastSet' = IF seen # <<>>
                         THEN [by |-> "end_on_collision", seen |-> seen]
                         ELSE lastSet
    /\ last_event_count' = event_count
    /\ UNCHANGED <<current, transition, end_next_loop, prep_exit, commands, world,
                   events_old, events_new, event_count, inputs, round, roundDeltas,
                   roundReports, phaseNo, pressEntries>>

\* ------------------------------------------------------------------ Spec

Next ==
    \/ BeginFrame
    \/ state_cleaner
    \/ ApplyBuffers
    \/ setup_title
    \/ setup
    \/ cleanup
    \/ start_game
    \/ show_summary
    \/ apply_velocity
    \/ enemy_spawner
    \/ player_movement
    \/ check_collisions
    \/ end_on_collision
    \/ update_score

Spec == Init /\ [][Next]_vars

\* ------------------------------------------- one system on chosen inputs

\* What setup leaves in the world: two cameras, the player at (px, -220) and
\* the scoreboard text showing shown
RoundEntities(px, shown) ==
    {Entity(0, {"Transform", "Camera"}, 0, 0, ScaleUnit, 0, 0, NoText),
     Entity(1, {"Transform", "Camera"}, 0, 0, ScaleUnit, 0, 0, NoText),
     Entity(2, {"Transform", "Sprite", "Player"}, px, PlayerStart.y, ScaleUnit, 0, 0,
            NoText),
     Entity(3, {"Transform", "Text"}, 0, 0, ScaleUnit, 0, 0,
            <<Section("Score: ", <<>>), Section("", shown)>>)}

\* An update pass of the first round in which only sys has yet to run; evs are
\* the events check_collisions has sent in it and sched what end_on_collision
\* has requested on reading them
MidPlaying(sys, evs, sched) ==
    /\ current = "Playing"
    /\ transition = NoTransition
    /\ scheduled = sched
    /\ end_next_loop = FALSE
    /\ prep_exit = TRUE
    /\ pc = "systems"
    /\ pending = {sys}
    /\ commands = <<>>
    /\ resources = {"Scoreboard", "TextFont", "SpriteSheet", "SpawnTimer"}
    /\ events_old = <<>>
    /\ events_new = evs
    /\ event_count = Len(evs)
    /\ last_event_count = IF sched = NoState THEN 0 ELSE Len(evs)
    /\ keys = {}
    /\ round = 1
    /\ roundReports = Len(evs)
    /\ phaseNo = 1
    /\ pressEntries = 0
    /\ lastSet = IF sched = NoState THEN [by |-> "start_game", seen |-> <<>>]
                 ELSE [by |-> "end_on_collision", seen |-> evs]

\* Obstacles around a player at (0, -220): offsets of the centre and scales
\* (in ScaleUnit halves) that overlap it, touch its edge and miss it
CollideDX == {-16, 0, 10, 16, 20}
CollideDY == {0, 16}
CollideScales == {1, 2}
MaxBoxes == 2

Boxes == CollideDX \X CollideDY \X CollideScales

InitCollide ==
    /\ MidPlaying("check_collisions", <<>>, NoState)
    /\ frame = 2
    /\ delta \in Deltas
    /\ roundDeltas = <<delta, delta>>
    /\ score = 2 * delta
    /\ spawn_timer = TimerTick(TimerTick(FreshTimer, delta), delta)
    /\ \E n \in 0..MaxBoxes : \E bs \in [1..n -> Boxes] :
           entities = RoundEntities(0, <<AsI16(score)>>)
               \cup {Entity(3 + i, {"Transform", "Sprite", "Velocity", "Collider"},
                             bs[i][1], PlayerStart.y + bs[i][2], bs[i][3],
                             0, -50, NoText) : i \in 1..n}

NextCollide == check_collisions

SpecCollide == InitCollide /\ [][NextCollide]_vars

\* Scores (in ticks) around a whole second and around the largest i16
ScoreSamples ==
    {0, 9, 10, 19, 12345, 327659, 327669, 327670, 327679, 327680, 327690, 655360}

\* The frame that ends the first round: an obstacle is on the player,
\* check_collisions has reported it, end_on_collision has requested GameOver
\* and update_score has yet to run on a score the round has reached
InitScore ==
    /\ frame = 2
    /\ MidPlaying("update_score",
                  <<[id |-> 0, player |-> 2, projectile |-> 4, round |-> 1,
                     frame |-> 2]>>,
                  "GameOver")
    /\ delta \in Deltas
    /\ score \in ScoreSamples
    /\ roundDeltas = <<score, delta>>
    /\ spawn_timer = TimerTick(TimerTick(FreshTimer, score), delta)
    /\ entities = RoundEntities(0, <<AsI16(score)>>)
           \cup {Entity(4, {"Transform", "Sprite", "Velocity", "Collider"},
                         0, PlayerStart.y, 2, 0, -50, NoText)}

NextScore ==
    \/ update_score
    \/ ApplyBuffers
    \/ state_cleaner
    \/ cleanup
    \/ show_summary

SpecScore == InitScore /\ [][NextScore]_vars

\* ---------------------------------------------------------------- claims

\* An update pass of Playing is running
PlayingUpdate == pc = "systems" /\ current = "Playing" /\ transition.kind = "None"

\* C1: the phase is GameOver only after end_on_collision observed an event, and
\* only if check_collisions reported an overlap during the round that ended.
C1_GameOverOnlyAfterReport ==
    /\ (transition.kind = "Entering" /\ transition.to = "GameOver") =>
           lastSet.by = "end_on_collision" /\ lastSet.seen # <<>>
    /\ current = "GameOver" => roundReports > 0

\* C2: no transition request fails fatally: no unwrap of state.set panics,
\* however many CollisionEvents end_on_collision observes in a frame.
C2_NoFatalTransition == pc # "panicked"

\* C3: while Space stays held (one press-and-release cycle) the machine enters
\* Playing at most once.
C3_OneEntryPerPress == pressEntries <= 1

\* C4: the phase starts as Title, is always one of the three phases, and changes
\* only Title->Playing and GameOver->Playing (start_game, Space held) and
\* Playing->GameOver (end_on_collision, on an observed event).
C4_Edge ==
    current' # current =>
        \/ /\ current \in {"Title", "GameOver"}
           /\ current' = "Playing"
           /\ lastSet.by = "start_game"
           /\ "Space" \in keys
        \/ /\ current = "Playing"
           /\ current' = "GameOver"
           /\ lastSet.by = "end_on_collision"
           /\ lastSet.seen # <<>>

C4_PhaseMachine ==
    /\ current = "Title"
    /\ [](current \in GameState)
    /\ [][C4_Edge]_vars

C4_Witness == current = "Playing" /\ round = 2 /\ pc = "idle"

\* C5: whenever the update systems of Playing run, exactly one Player exists.
C5_OnePlayer == PlayingUpdate => Cardinality(Players) = 1

C5_Witness == PlayingUpdate /\ round = 2 /\ Cardinality(Players) = 1

\* C6: when a phase's entry system is about to run no entity exists, and every
\* entity that exists was created in the phase the machine is in.
C6_NoLeak ==
    /\ (pc = "systems" /\ transition.kind = "Entering") => entities = {}
    /\ \A e \in entities : e.born = phaseNo

C6_Witness ==
    /\ pc = "systems"
    /\ transition = Tr("Entering", "Playing", "GameOver")
    /\ "show_summary" \in pending
    /\ entities = {}

\* The round has been set up and none of its update systems has run
RoundStart ==
    /\ current = "Playing"
    /\ \/ pc = "criteria" /\ transition.kind = "Entering"
       \/ PlayingUpdate /\ Len(roundDeltas) = 1 /\ pending = OnUpdate("Playing")

\* C7: at the start of every round there is exactly one player, at (0, -220),
\* no obstacle, the score is 0 and the spawn timer has no time accumulated.
C7_FreshRound ==
    RoundStart =>
        /\ Cardinality(Players) = 1
        /\ \A p \in Players : p.x = 0 /\ p.y = -220
        /\ Obstacles = {}
        /\ score = 0
        /\ spawn_timer.elapsed = 0
        /\ ~spawn_timer.finished

C7_Witness == RoundStart /\ round = 2 /\ PlayingUpdate

\* C8: during a round the score is the sum of the deltas of the round's update
\* passes (this pass's delta counted once update_score has run).
C8_ScoreIsRoundTime ==
    (current = "Playing" /\ ~(transition.kind = "Entering" /\ "setup" \in pending)) =>
        score = SumSeq(roundDeltas) - (IF "update_score" \in pending THEN delta ELSE 0)

C8_Witness ==
    /\ current = "Playing"
    /\ pc = "idle"
    /\ Len(roundDeltas) = 2
    /\ score = roundDeltas[1] + roundDeltas[2]

\* C9: within a round the score never decreases, and no step taken while the
\* phase is Title or GameOver changes it.
C9_Step ==
    /\ round' = round => score' >= score
    /\ current # "Playing" => score' = score

C9_ScoreMonotoneFrozen == [][C9_Step]_vars

C9_Witness == current = "GameOver" /\ pc = "idle" /\ score > 0 /\ delta > 0

\* The spawn timer has been ticked in this update pass
Ticked == PlayingUpdate /\ "enemy_spawner" \notin pending

\* C10: after each tick the timer holds the round's time modulo its period, it
\* finishes (and one spawn is queued) exactly when the time it held plus the
\* delta reaches the period; fed 0.4, 0.4, 0.3 s it fires once, on the third
\* frame, and holds 0.1 s.
C10_TimerCarries ==
    Ticked =>
        LET before == (SumSeq(roundDeltas) - delta) % TimerDuration
        IN  /\ spawn_timer.elapsed = SumSeq(roundDeltas) % TimerDuration
            /\ spawn_timer.finished <=> before + delta >= TimerDuration
            /\ Cardinality(SpawnsOf(commands)) = (IF spawn_timer.finished THEN 1 ELSE 0)
            /\ roundDeltas = <<4, 4, 3>> =>
                   /\ spawn_timer.elapsed = 1
                   /\ Cardinality(SpawnsOf(commands)) = 1
                   /\ Obstacles = {}

C10_Witness ==
    /\ Ticked
    /\ roundDeltas = <<4, 4, 3>>
    /\ spawn_timer.elapsed = 1
    /\ Cardinality(SpawnsOf(commands)) = 1

\* The box of e is SPRITE_SIZE * scale wide and high
Width(e) == (SPRITE_SIZE * e.scale) \div ScaleUnit

Abs(n) == IF n < 0 THEN -n ELSE n

\* The boxes of p and o overlap strictly on both axes
StrictOverlap(p, o) ==
    /\ 2 * Abs(p.x - o.x) < Width(p) + Width(o)
    /\ 2 * Abs(p.y - o.y) < Width(p) + Width(o)

\* The boxes of p and o share an edge and nothing more
EdgeTouch(p, o) ==
    /\ 2 * Abs(p.x - o.x) = Width(p) + Width(o)
    /\ 2 * Abs(p.y - o.y) < Width(p) + Width(o)

EventsFor(p, o) ==
    {i \in DOMAIN events_new : /\ events_new[i].player = p.id
                               /\ events_new[i].projectile = o.id
                               /\ events_new[i].frame = frame}

StepOf(sys) == pc = "systems" /\ sys \in pending /\ sys \notin pending'

\* C12: apply_velocity moves every entity that has a velocity V from P to
\* P + V * delta and leaves every other entity (the player among them) as it
\* was; no step changes an obstacle's x or raises its y.
C12_Step ==
    /\ StepOf("apply_velocity") =>
           /\ Cardinality(entities') = Cardinality(entities)
           /\ \A e \in entities :
                  IF "Velocity" \in e.comps
                  THEN \E f \in entities' :
                           /\ f.id = e.id
                           /\ TicksPerSecond * (f.x - e.x) = e.vx * delta
                           /\ TicksPerSecond * (f.y - e.y) = e.vy * delta
                           /\ f = [e EXCEPT !.x = f.x, !.y = f.y]
                  ELSE e \in entities'
    /\ \A o \in Obstacles : \A f \in entities' :
           (f.id = o.id /\ "Collider" \in f.comps) => f.x = o.x /\ f.y <= o.y

C12_VelocityApplied == [][C12_Step]_vars

C12_Witness ==
    /\ PlayingUpdate
    /\ "apply_velocity" \notin pending
    /\ delta = 4
    /\ \E o \in Obstacles : o.vy = -110 /\ o.x = 0 /\ o.y = SPAWN_Y - 44
    /\ \A p \in Players : p.x = 0 /\ p.y = SCREEN_Y_START


\* C13: in every update pass of Playing the systems run in the order movement
\* (apply_velocity, player_movement), check_collisions, end_on_collision,
\* update_score: none of them has run while one that precedes it is pending.
C13_FixedOrder ==
    PlayingUpdate =>
        /\ "check_collisions" \notin pending =>
               pending \cap {"apply_velocity", "player_movement"} = {}
        /\ "end_on_collision" \notin pending => "check_collisions" \notin pending
        /\ "update_score" \notin pending => "end_on_collision" \notin pending

\* C14: every CollisionEvent end_on_collision reads was sent in the frame and
\* in the round in which it is read.
C14_Step ==
    StepOf("end_on_collision") =>
        LET seen == Unread(last_event_count)
        IN  \A i \in DOMAIN seen : seen[i].frame = frame /\ seen[i].round = round

C14_ReadInFrameSent == [][C14_Step]_vars

\* C15: when update_score runs after end_on_collision has requested GameOver
\* in the same update pass, it leaves the score as it is.
C15_Step ==
    (/\ StepOf("update_score")
     /\ PlayingUpdate
     /\ "end_on_collision" \notin pending
     /\ scheduled = "GameOver") => score' = score

C15_NoScoreInCollisionFrame == [][C15_Step]_vars


\* The obstacles queued for spawning
QueuedObstacles == {e \in SpawnsOf(commands) : "Collider" \in e.comps}

\* C16: enemy_spawner queues exactly one obstacle in a frame in which the timer
\* reached its period (however many periods the delta spans) and none in any
\* other frame; a new obstacle is at y = 220 with no horizontal and a downward
\* velocity; a round never has more obstacles than update passes.
C16_OneSpawnPerFiring ==
    /\ Ticked =>
           LET held == (SumSeq(roundDeltas) - delta) % TimerDuration
           IN  Cardinality(QueuedObstacles) =
                   (IF held + delta >= TimerDuration THEN 1 ELSE 0)
    /\ \A e \in QueuedObstacles : e.y = 220 /\ e.vx = 0 /\ e.vy < 0
    /\ current = "Playing" =>
           Cardinality(Obstacles) + Cardinality(QueuedObstacles) <= Len(roundDeltas)

C16_Witness ==
    /\ Ticked
    /\ delta = 4 * TimerDuration
    /\ spawn_timer.times_finished = 4
    /\ Cardinality(QueuedObstacles) = 1
    /\ Cardinality(Obstacles) = 1


\* C17: player_movement changes nothing but the player's x: by -100 * delta
\* with Left alone held, by +100 * delta with Right alone, by nothing with both
\* or neither; the player's y is -220 throughout; x is not clamped.
C17_Step ==
    StepOf("player_movement") =>
        /\ Cardinality(entities') = Cardinality(entities)
        /\ \A e \in entities :
               IF "Player" \in e.comps
               THEN \E f \in entities' :
                        /\ f = [e EXCEPT !.x = f.x]
                        /\ TicksPerSecond * (f.x - e.x) =
                               (CASE keys \cap {"Left", "Right"} = {"Left"} -> -100 * delta
                                  [] keys \cap {"Left", "Right"} = {"Right"} -> 100 * delta
                                  [] OTHER -> 0)
               ELSE e \in entities'

C17_PlayerMovesOnX ==
    /\ [](\A p \in Players : p.y = -220)
    /\ [][C17_Step]_vars

\* The player is beyond the screen range on the right and, with both keys held,
\* player_movement has left it there
C17_Witness ==
    /\ PlayingUpdate
    /\ "player_movement" \notin pending
    /\ keys = {"Left", "Right"}
    /\ \E p \in Players : p.x > 320 /\ p.y = -220


\* C18: no obstacle is removed during a round: an obstacle disappears only in
\* the exit from Playing, which removes them all; an obstacle below the bottom
\* of the screen (y < -220) stays, and check_collisions still sends an event
\* for it when it overlaps the player.
C18_Step ==
    /\ (\E o \in Obstacles : \A f \in entities' : f.id # o.id) =>
           /\ transition.kind = "ExitingFull"
           /\ transition.from = "Playing"
           /\ entities' = {}
    /\ StepOf("check_collisions") =>
           \A p \in Players, o \in Obstacles :
               (o.y < -220 /\ StrictOverlap(p, o)) =>
                   \E i \in DOMAIN events_new' :
                       /\ events_new'[i].id >= event_count
                       /\ events_new'[i].projectile = o.id

Shown(e) == e.text[2].num

\* C19: the scoreboard text, once update_score has run, and the text of the
\* GameOver summary show the score truncated to whole seconds, for every score
\* a round can reach (32768 s and more included).
C19_DisplayTruncates ==
    /\ (current = "Playing" /\ "update_score" \notin pending) =>
           \A t \in Texts : Shown(t) = <<score \div TicksPerSecond>>
    /\ current = "GameOver" =>
           \A t \in Texts \cup SpawnsOf(commands) :
               "Text" \in t.comps => Shown(t) = <<score \div TicksPerSecond>>


\* C20: whenever update_score is about to run exactly one Text entity exists,
\* the scoreboard text of two sections, so its single_mut lookup succeeds.
C20_OneScoreText ==
    (pc = "systems" /\ "update_score" \in pending) =>
        /\ Cardinality(Texts) = 1
        /\ \A t \in Texts : Len(t.text) = 2 /\ t.text[1].lit = "Score: "

C20_Witness ==
    /\ pc = "systems"
    /\ "update_score" \in pending
    /\ round = 2
    /\ Cardinality(Texts) = 1

=============================================================================
